---- MODULE Spec2Model ----
(***************************************************************************)
(* Anime_Recommender: the data loader (src/data_loader.py), the pipeline   *)
(* driver (pipeline/build_pipleline.py) and the recommender                *)
(* (src/recommender.py), as state machines.                                *)
(*                                                                         *)
(* Text is modelled by TLA+ strings; a CSV file is its header and its data *)
(* lines, each line the sequence of its raw fields as the CSV reader       *)
(* splits them (quoting already undone).                                   *)
(***************************************************************************)
EXTENDS Integers, Sequences, FiniteSets, TLC

VARIABLES
    fs,              \* the file system: path -> file
    caller,          \* who runs the loader: "main" (the driver) or "direct"
    loader,          \* the AnimeDataLoader object: original_csv, processed_csv
    lpc,             \* position inside load_and_process
    df,              \* load_and_process's local DataFrame
    outcome,         \* how the load_and_process call ended: return value or exception
    fs_at_call,      \* history: the file system when the current call began
    first_call,      \* history: the previous load_and_process call (loader, outcome, fs)
    mpc,             \* position inside main()
    log,             \* what main() has written to the log
    vector_builder,  \* main()'s VectorStoreBuilder object
    e,               \* the exception main()'s handler has caught
    trace,           \* history: the calls main() has made on its collaborators
    main_outcome,    \* how main() ended
    query,           \* get_recommendations's argument
    rpc,             \* position inside get_recommendations
    retrieved_docs,  \* get_recommendations's locals
    context,
    prompt_input,
    rec_outcome,     \* how get_recommendations ended
    rtrace           \* history: the calls get_recommendations has made

loader_vars == <<fs, caller, loader, lpc, df, outcome, fs_at_call, first_call>>
main_vars   == <<mpc, log, vector_builder, e, trace, main_outcome>>
rec_vars    == <<query, rpc, retrieved_docs, context, prompt_input, rec_outcome, rtrace>>
vars        == <<loader_vars, main_vars, rec_vars>>

(***************************************************************************)
(* Bounds of the model.                                                    *)
(***************************************************************************)
MaxRows == 2     \* data lines of a source CSV
MaxDocs == 2     \* documents a retriever returns

(***************************************************************************)
(* Sequence helpers.                                                       *)
(***************************************************************************)
Range(s) == {s[i] : i \in 1..Len(s)}

SeqsUpTo(S, n) == UNION {[1..k -> S] : k \in 0..n}

\* The position of name c in the sequence of names cols (0 when absent).
IndexOf(cols, c) ==
    IF c \in Range(cols) THEN CHOOSE i \in 1..Len(cols) : cols[i] = c ELSE 0

(***************************************************************************)
(* Files.                                                                  *)
(***************************************************************************)
NoFile      == [kind |-> "absent"]        \* no file at the path
Undecodable == [kind |-> "undecodable"]   \* bytes that are not UTF-8 text
EmptyFile   == [kind |-> "empty"]         \* a zero-byte file
CsvFile(header, lines) == [kind |-> "csv", header |-> header, lines |-> lines]

\* main()'s two paths (project_root / "data" / ...).
csv_path           == "data/anime_with_synopsis.csv"
processed_csv_path == "data/anime_updated.csv"
Paths == {csv_path, processed_csv_path}

(***************************************************************************)
(* pandas.read_csv(path, encoding='utf-8', on_bad_lines='skip')            *)
(***************************************************************************)
\* The field texts read_csv takes for a missing value (its default na_values).
NaValues == {"", "#N/A", "#N/A N/A", "#NA", "-1.#IND", "-1.#QNAN", "-NaN", "-nan",
             "1.#IND", "1.#QNAN", "<NA>", "N/A", "NA", "NULL", "NaN", "None",
             "n/a", "nan", "null"}

\* The field texts of the model's inputs that read_csv parses as numbers.
NumericTexts == {"20", "86", "7.9"}

NaN == [na |-> TRUE, text |-> ""]
Value(text) == [na |-> FALSE, text |-> text]

\* A data line whose first line has more fields than the header makes read_csv
\* take the leading surplus fields of every line as the row index.
leading_cols(file) ==
    IF Len(file.lines) > 0 /\ Len(file.lines[1]) > Len(file.header)
    THEN Len(file.lines[1]) - Len(file.header)
    ELSE 0

\* on_bad_lines='skip': a line with more fields than expected is dropped.
IsBadLine(file, i) ==
    Len(file.lines[i]) > Len(file.header) + leading_cols(file)

\* The cell of line i under column j: a missing or empty field is NaN.
ParseCell(file, i, j) ==
    LET p == j + leading_cols(file)
        line == file.lines[i]
    IN  IF p > Len(line) \/ line[p] \in NaValues THEN NaN ELSE Value(line[p])

ParseRow(file, i) ==
    [line |-> i, cells |-> [j \in 1..Len(file.header) |-> ParseCell(file, i, j)]]

RECURSIVE ParseLines(_, _)
ParseLines(file, i) ==
    IF i > Len(file.lines) THEN <<>>
    ELSE IF IsBadLine(file, i) THEN ParseLines(file, i + 1)
    ELSE <<ParseRow(file, i)>> \o ParseLines(file, i + 1)

\* A column all of whose present values are numbers is a numeric column; a
\* column of a frame without rows, or with any text in it, holds objects.
InferDtype(rows, j) ==
    IF rows # <<>> /\ \A k \in 1..Len(rows) :
                         rows[k].cells[j].na \/ rows[k].cells[j].text \in NumericTexts
    THEN "float64"
    ELSE "object"

DataFrame(columns, dtypes, rows) ==
    [columns |-> columns, dtypes |-> dtypes, rows |-> rows]

NoFrame == DataFrame(<<>>, <<>>, <<>>)

read_csv(file) ==
    LET rows == ParseLines(file, 1)
    IN  DataFrame(file.header,
                  [j \in 1..Len(file.header) |-> InferDtype(rows, j)],
                  rows)

\* What reading the file raises, "" when it reads.
ReadError(file) ==
    CASE file.kind = "absent"      -> "FileNotFoundError"
      [] file.kind = "undecodable" -> "UnicodeDecodeError"
      [] file.kind = "empty"       -> "EmptyDataError"
      [] OTHER                     -> ""

\* DataFrame.dropna(): the rows without a NaN in any column, in order.
HasNa(row) == \E j \in 1..Len(row.cells) : row.cells[j].na

\* Mutant: dropna(subset=[required columns]).
dropna_required_only(frame) ==
    LET Complete(row) ==
            \A j \in 1..Len(row.cells) :
                frame.columns[j] \in {"Name", "Genres", "sypnopsis"} => ~row.cells[j].na
    IN  [frame EXCEPT !.rows = SelectSeq(frame.rows, Complete)]

dropna(frame) ==
    LET Complete(row) == ~HasNa(row)
    IN  [frame EXCEPT !.rows = SelectSeq(frame.rows, Complete)]

(***************************************************************************)
(* AnimeDataLoader.load_and_process, lines 12-25.                          *)
(***************************************************************************)
required_columns == {"Name", "Genres", "sypnopsis"}

\* Mutant: the third required column under its dictionary spelling.
missing_respelt(frame) == {"Name", "Genres", "synopsis"} \ Range(frame.columns)

missing(frame) == required_columns \ Range(frame.columns)

Col(frame, row, c) == row.cells[IndexOf(frame.columns, c)]

\* Mutant: the overview and the genres in each other's place.
combined_info_swapped(frame, row) ==
    "Title: " \o Col(frame, row, "Name").text
        \o "..Overview: " \o Col(frame, row, "Genres").text
        \o "Genres : " \o Col(frame, row, "sypnopsis").text

\* "Title: " + df["Name"] + "..Overview: " + df['sypnopsis'] + "Genres : " + df["Genres"]
combined_info(frame, row) ==
    "Title: " \o Col(frame, row, "Name").text
        \o "..Overview: " \o Col(frame, row, "sypnopsis").text
        \o "Genres : " \o Col(frame, row, "Genres").text

\* str + a numeric Series raises TypeError.
CombineRaises(frame) ==
    \E c \in required_columns : frame.dtypes[IndexOf(frame.columns, c)] # "object"

\* df['combined_info'] = ...: a new last column, or the column of that name
\* assigned anew.
AddCombinedInfo(frame) ==
    LET at == IndexOf(frame.columns, "combined_info")
        Put(cells, v) == IF at = 0 THEN Append(cells, v) ELSE [cells EXCEPT ![at] = v]
    IN  DataFrame(Put(frame.columns, "combined_info"),
                  Put(frame.dtypes, "object"),
                  [k \in 1..Len(frame.rows) |->
                      [frame.rows[k] EXCEPT
                          !.cells = Put(@, Value(combined_info(frame, frame.rows[k])))]])

\* Mutant: df.to_csv(path, index=False), every column written.
to_csv_every_column(frame) ==
    CsvFile(frame.columns,
            [k \in 1..Len(frame.rows) |->
                [j \in 1..Len(frame.columns) |-> frame.rows[k].cells[j].text]])

\* Mutant: to_csv without index=False, the row labels written first.
to_csv_with_index(frame) ==
    CsvFile(<<"", "combined_info">>,
            [k \in 1..Len(frame.rows) |->
                <<"0", Col(frame, frame.rows[k], "combined_info").text>>])

\* df[['combined_info']].to_csv(path, index=False): the header and one field a row.
to_csv(frame) ==
    CsvFile(<<"combined_info">>,
            [k \in 1..Len(frame.rows) |->
                <<Col(frame, frame.rows[k], "combined_info").text>>])

(***************************************************************************)
(* How a call ends.                                                        *)
(***************************************************************************)
Running          == [kind |-> "none"]
Returned(value)  == [kind |-> "return", value |-> value]
Raised(type, detail) == [kind |-> "raise", type |-> type, detail |-> detail]

\* f"Missing columns {missing} in CSV file"
MissingColumnsMessage(m) == <<"Missing columns ", m, " in CSV file">>

NoLoader == [kind |-> "none"]

\* AnimeDataLoader.__init__
AnimeDataLoader(original_csv, processed_csv) ==
    [kind |-> "AnimeDataLoader",
     original_csv |-> original_csv, processed_csv |-> processed_csv]

NoCall == [kind |-> "none"]

(***************************************************************************)
(* The source files of the model.                                          *)
(***************************************************************************)
SampleText(column, v) ==
    CASE column = "MAL_ID"    -> IF v = 1 THEN "20" ELSE "86"
      [] column = "Name"      -> IF v = 1 THEN "Naruto" ELSE "Bleach"
      [] column = "Score"     -> "7.9"
      [] column = "Genres"    -> IF v = 1 THEN "Action, Adventure" ELSE "Action"
      [] column = "sypnopsis" -> IF v = 1 THEN "A ninja's journey." ELSE "Soul reapers."
      [] OTHER                -> IF v = 1 THEN "Title: Old..Overview: Old.Genres : Old"
                                          ELSE "text"

BaseLine(header, v) == [j \in 1..Len(header) |-> SampleText(header[j], v)]

\* Complete lines, lines with a missing value (first column empty, last column
\* "NA"), lines with one and with two surplus fields, a numeric title and a
\* line cut short.
LinesFor(header) ==
    LET n == Len(header)
    IN  {BaseLine(header, 1), BaseLine(header, 2),
         [BaseLine(header, 1) EXCEPT ![1] = ""],
         [BaseLine(header, 2) EXCEPT ![n] = "NA"],
         Append(BaseLine(header, 2), "surplus"),
         BaseLine(header, 1) \o <<"surplus", "more">>}
        \cup (IF "Name" \in Range(header)
              THEN {[BaseLine(header, 2) EXCEPT ![IndexOf(header, "Name")] = "86"]}
              ELSE {})
        \cup (IF n >= 2 THEN {SubSeq(BaseLine(header, 1), 1, n - 1)} ELSE {})

\* Headers with every required column: their files have up to MaxRows lines.
FullHeaders ==
    {<<"Name", "Genres", "sypnopsis">>,
     <<"MAL_ID", "Name", "Score", "Genres", "sypnopsis">>}

\* Other headers, most of them short of a required column: their files have
\* at most one line.
OtherHeaders ==
    {<<"Name">>, <<"Genres">>, <<"sypnopsis">>,
     <<"Name", "Genres">>, <<"Name", "sypnopsis">>, <<"Genres", "sypnopsis">>,
     <<"MAL_ID", "Score">>, <<"MAL_ID", "Name", "Score", "Genres">>,
     <<"combined_info">>, <<"sypnopsis", "Genres", "Name">>,
     <<"Name", "combined_info", "Genres", "sypnopsis">>}

SourceFiles ==
    {NoFile, Undecodable, EmptyFile}
    \cup UNION {{CsvFile(h, ls) : ls \in SeqsUpTo(LinesFor(h), MaxRows)} : h \in FullHeaders}
    \cup UNION {{CsvFile(h, ls) : ls \in SeqsUpTo(LinesFor(h), 1)} : h \in OtherHeaders}

\* What may lie at the other path before the run.
StaleFiles ==
    {NoFile, CsvFile(<<"combined_info">>, <<BaseLine(<<"combined_info">>, 1)>>)}

(***************************************************************************)
(* AnimeDataLoader.load_and_process, step by step.                         *)
(***************************************************************************)
Raise(exception) ==
    /\ lpc' = "raised"
    /\ outcome' = exception

\* Line 9: df = pd.read_csv(self.original_csv, ...).dropna()
LP_Read ==
    /\ lpc = "line9"
    /\ LET file == fs[loader.original_csv]
       IN  IF ReadError(file) # ""
           THEN /\ Raise(Raised(ReadError(file), loader.original_csv))
                /\ UNCHANGED df
           ELSE /\ df' = dropna(read_csv(file))
                /\ lpc' = "line12"
                /\ UNCHANGED outcome
    /\ UNCHANGED <<fs, caller, loader, fs_at_call, first_call, main_vars, rec_vars>>

\* Mutant: the destination is opened for writing before the columns are checked.
LP_Validate_after_open ==
    /\ lpc = "line12"
    /\ fs' = [fs EXCEPT ![loader.processed_csv] = EmptyFile]
    /\ IF missing(df) # {}
       THEN Raise(Raised("ValueError", MissingColumnsMessage(missing(df))))
       ELSE /\ lpc' = "line21"
            /\ UNCHANGED outcome
    /\ UNCHANGED <<caller, loader, df, fs_at_call, first_call, main_vars, rec_vars>>

\* Lines 12-19: the required columns.
LP_Validate ==
    /\ lpc = "line12"
    /\ IF missing(df) # {}
       THEN Raise(Raised("ValueError", MissingColumnsMessage(missing(df))))
       ELSE /\ lpc' = "line21"
            /\ UNCHANGED outcome
    /\ UNCHANGED <<fs, caller, loader, df, fs_at_call, first_call, main_vars, rec_vars>>

\* Lines 21-23: df['combined_info'] = ...
LP_Combine ==
    /\ lpc = "line21"
    /\ IF CombineRaises(df)
       THEN /\ Raise(Raised("TypeError", "unsupported operand type(s) for +"))
            /\ UNCHANGED df
       ELSE /\ df' = AddCombinedInfo(df)
            /\ lpc' = "line25"
            /\ UNCHANGED outcome
    /\ UNCHANGED <<fs, caller, loader, fs_at_call, first_call, main_vars, rec_vars>>

\* Line 25: df[['combined_info']].to_csv(self.processed_csv, index=False, ...)
\* The file is written; or it cannot be opened and stays as it was; or the
\* write fails after the file was truncated and some of its lines were written.
LP_Write ==
    /\ lpc = "line25"
    /\ \/ /\ fs' = [fs EXCEPT ![loader.processed_csv] = to_csv(df)]
          /\ lpc' = "line27"
          /\ UNCHANGED outcome
       \/ /\ Raise(Raised("OSError", loader.processed_csv))
          /\ UNCHANGED fs
       \/ /\ \E part \in {EmptyFile}
                      \cup {CsvFile(<<"combined_info">>, SubSeq(to_csv(df).lines, 1, k)) :
                               k \in 0..(Len(df.rows) - 1)} :
                fs' = [fs EXCEPT ![loader.processed_csv] = part]
          /\ Raise(Raised("OSError", loader.processed_csv))
    /\ UNCHANGED <<caller, loader, df, fs_at_call, first_call, main_vars, rec_vars>>

\* Line 27: return self.processed_csv
LP_Return ==
    /\ lpc = "line27"
    /\ lpc' = "returned"
    /\ outcome' = Returned(loader.processed_csv)
    /\ UNCHANGED <<fs, caller, loader, df, fs_at_call, first_call, main_vars, rec_vars>>

load_and_process == LP_Read \/ LP_Validate \/ LP_Combine \/ LP_Write \/ LP_Return

(***************************************************************************)
(* A direct caller of the loader: any two paths; and, after a successful   *)
(* call, a second loader whose source is the first one's processed output. *)
(***************************************************************************)
Construct(original_csv, processed_csv) ==
    /\ caller = "direct"
    /\ lpc = "idle"
    /\ loader' = AnimeDataLoader(original_csv, processed_csv)
    /\ lpc' = "line9"
    /\ fs_at_call' = fs
    /\ UNCHANGED <<fs, caller, df, outcome, first_call, main_vars, rec_vars>>

RoundTrip(processed_csv) ==
    /\ caller = "direct"
    /\ lpc = "returned"
    /\ first_call = NoCall
    /\ first_call' = [kind |-> "call", loader |-> loader, outcome |-> outcome,
                      fs_before |-> fs_at_call, fs_after |-> fs]
    /\ loader' = AnimeDataLoader(outcome.value, processed_csv)
    /\ lpc' = "line9"
    /\ df' = NoFrame
    /\ outcome' = Running
    /\ fs_at_call' = fs
    /\ UNCHANGED <<fs, caller, main_vars, rec_vars>>

(***************************************************************************)
(* main() of pipeline/build_pipleline.py.                                  *)
(***************************************************************************)
NoException == [kind |-> "none"]
NoBuilder   == [kind |-> "none"]

\* logger.info(msg); about is the exception formatted into the message.
LogEntry(msg, about) == [level |-> "INFO", msg |-> msg, about |-> about]

Call(what, arg)  == [ev |-> "call", what |-> what, arg |-> arg]
Ended(ev, what)  == [ev |-> ev, what |-> what, arg |-> ""]

\* VectorStoreBuilder(csv_path=...)
VectorStoreBuilder(path) == [kind |-> "VectorStoreBuilder", csv_path |-> path]

\* CustomException(message, error_detail)
CustomException(message, error_detail) ==
    Raised("CustomException", [message |-> message, error_detail |-> error_detail])

\* Lines 20-26: the paths, the loader, and the call of load_and_process.
M_Start ==
    /\ mpc = "line20"
    /\ log' = Append(log, LogEntry("Starting to build pipeline", NoException))
    /\ loader' = AnimeDataLoader(csv_path, processed_csv_path)
    /\ lpc' = "line9"
    /\ fs_at_call' = fs
    /\ trace' = Append(trace, Call("load_and_process", ""))
    /\ mpc' = "line26"
    /\ UNCHANGED <<fs, caller, df, outcome, first_call, vector_builder, e,
                   main_outcome, rec_vars>>

\* Mutant: the builder is given the raw CSV, not the path load_and_process returned.
M_Loaded_raw_csv ==
    /\ mpc = "line26"
    /\ lpc = "returned"
    /\ log' = Append(log, LogEntry("Data loaded and processed successfully", NoException))
    /\ vector_builder' = VectorStoreBuilder(csv_path)
    /\ trace' = trace \o <<Ended("return", "load_and_process"),
                           Call("VectorStoreBuilder", csv_path),
                           Ended("return", "VectorStoreBuilder")>>
    /\ mpc' = "line30"
    /\ UNCHANGED <<loader_vars, e, main_outcome, rec_vars>>

\* Lines 26-28: load_and_process has returned; VectorStoreBuilder is constructed
\* (it builds or raises).
M_Loaded ==
    /\ mpc = "line26"
    /\ lpc = "returned"
    /\ LET processed_csv == outcome.value
           entered == trace \o <<Ended("return", "load_and_process"),
                                 Call("VectorStoreBuilder", processed_csv)>>
       IN  /\ log' = Append(log, LogEntry("Data loaded and processed successfully",
                                          NoException))
           /\ \/ /\ vector_builder' = VectorStoreBuilder(processed_csv)
                 /\ trace' = Append(entered, Ended("return", "VectorStoreBuilder"))
                 /\ mpc' = "line30"
                 /\ UNCHANGED e
              \/ /\ e' = Raised("VectorStoreError", "VectorStoreBuilder")
                 /\ trace' = Append(entered, Ended("raise", "VectorStoreBuilder"))
                 /\ mpc' = "line37"
                 /\ UNCHANGED vector_builder
    /\ UNCHANGED <<loader_vars, main_outcome, rec_vars>>

\* Line 26: load_and_process has raised; control passes to the handler.
M_LoadFailed ==
    /\ mpc = "line26"
    /\ lpc = "raised"
    /\ e' = outcome
    /\ trace' = Append(trace, Ended("raise", "load_and_process"))
    /\ mpc' = "line37"
    /\ UNCHANGED <<loader_vars, log, vector_builder, main_outcome, rec_vars>>

\* Lines 30-33: build_and_save_vectorstore (it builds or raises), the last logs.
M_Build ==
    /\ mpc = "line30"
    /\ LET entered == Append(trace, Call("build_and_save_vectorstore",
                                         vector_builder.csv_path))
       IN  \/ /\ trace' = Append(entered, Ended("return", "build_and_save_vectorstore"))
              /\ log' = log \o <<LogEntry("Vector store built successfully...", NoException),
                                 LogEntry("Pipeline built successfully", NoException)>>
              /\ mpc' = "returned"
              /\ main_outcome' = Returned("None")
              /\ UNCHANGED e
           \/ /\ trace' = Append(entered, Ended("raise", "build_and_save_vectorstore"))
              /\ e' = Raised("VectorStoreError", "build_and_save_vectorstore")
              /\ mpc' = "line37"
              /\ UNCHANGED <<log, main_outcome>>
    /\ UNCHANGED <<loader_vars, vector_builder, rec_vars>>

\* Mutant: the handler logs and does not raise.
M_Except_swallow ==
    /\ mpc = "line37"
    /\ log' = Append(log, LogEntry("failed to execute pipeline ", e))
    /\ main_outcome' = Returned("None")
    /\ mpc' = "returned"
    /\ UNCHANGED <<loader_vars, vector_builder, e, trace, rec_vars>>

\* Lines 36-38: the handler.
M_Except ==
    /\ mpc = "line37"
    /\ log' = Append(log, LogEntry("failed to execute pipeline ", e))
    /\ main_outcome' = CustomException("Error during pipeline initialization", e)
    /\ mpc' = "raised"
    /\ UNCHANGED <<loader_vars, vector_builder, e, trace, rec_vars>>

main == M_Start \/ M_Loaded \/ M_LoadFailed \/ M_Build \/ M_Except

(***************************************************************************)
(* AnimeRecommender.get_recommendations of src/recommender.py.             *)
(***************************************************************************)
Queries   == {"action anime", "I like action anime with deep plots"}
DocTexts  == {"doc A", "doc B", "two\nlines"}
Responses == {"1. Naruto 2. Bleach 3. One Piece", ""}

Document(text) == [page_content |-> text]

\* "\n".join(texts)
RECURSIVE Join(_, _)
Join(sep, texts) ==
    IF texts = <<>> THEN ""
    ELSE IF Len(texts) = 1 THEN texts[1]
    ELSE texts[1] \o sep \o Join(sep, Tail(texts))

\* self.prompt.format(context=..., question=...)
PromptFormat(ctx, question) ==
    [template |-> "anime_prompt", context |-> ctx, question |-> question]

\* A call get_recommendations makes, and how it ended: result is the text
\* returned (llm.invoke) or the type of the exception raised.
RCall(what, arg) == [ev |-> "call", what |-> what, arg |-> arg, result |-> ""]
REnded(ev, what, result) ==
    [ev |-> ev, what |-> what, arg |-> PromptFormat("", ""), result |-> result]

\* Mutant: a failed retrieval is taken for no documents.
R_Retrieve_swallow ==
    /\ rpc = "line28"
    /\ LET entered == Append(rtrace, RCall("retriever.invoke", PromptFormat("", query)))
       IN  \/ /\ \E texts \in SeqsUpTo(DocTexts, MaxDocs) :
                    retrieved_docs' = [i \in 1..Len(texts) |-> Document(texts[i])]
              /\ rtrace' = Append(entered, REnded("return", "retriever.invoke", ""))
           \/ /\ retrieved_docs' = <<>>
              /\ rtrace' = Append(entered, REnded("raise", "retriever.invoke",
                                                  "RetrieverError"))
    /\ rpc' = "line31"
    /\ UNCHANGED <<query, context, prompt_input, rec_outcome, loader_vars, main_vars>>

\* Line 28: retrieved_docs = self.retriever.invoke(query)
R_Retrieve ==
    /\ rpc = "line28"
    /\ LET entered == Append(rtrace, RCall("retriever.invoke", PromptFormat("", query)))
       IN  \/ /\ \E texts \in SeqsUpTo(DocTexts, MaxDocs) :
                    retrieved_docs' = [i \in 1..Len(texts) |-> Document(texts[i])]
              /\ rtrace' = Append(entered, REnded("return", "retriever.invoke", ""))
              /\ rpc' = "line31"
              /\ UNCHANGED rec_outcome
           \/ /\ rec_outcome' = Raised("RetrieverError", "retriever.invoke")
              /\ rtrace' = Append(entered, REnded("raise", "retriever.invoke",
                                                  "RetrieverError"))
              /\ rpc' = "raised"
              /\ UNCHANGED retrieved_docs
    /\ UNCHANGED <<query, context, prompt_input, loader_vars, main_vars>>

\* Line 31: the context.
page_contents(docs) == [i \in 1..Len(docs) |-> docs[i].page_content]

\* Mutant: every document followed by the separator.
MakeContext_terminated(docs) ==
    Join("", [i \in 1..Len(docs) |-> docs[i].page_content \o "\n"])

MakeContext(docs) == Join("\n", page_contents(docs))

\* Lines 31-34: the context and the prompt.
R_Format ==
    /\ rpc = "line31"
    /\ context' = MakeContext(retrieved_docs)
    /\ prompt_input' = PromptFormat(context', query)
    /\ rtrace' = Append(rtrace, RCall("prompt.format", PromptFormat(context', query)))
    /\ rpc' = "line37"
    /\ UNCHANGED <<query, retrieved_docs, rec_outcome, loader_vars, main_vars>>

\* Lines 37-39: result = self.llm.invoke(prompt_input); return result.content
R_Invoke ==
    /\ rpc = "line37"
    /\ LET entered == Append(rtrace, RCall("llm.invoke", prompt_input))
       IN  \/ /\ \E result \in {[content |-> c] : c \in Responses} :
                    /\ rec_outcome' = Returned(result.content)
                    /\ rtrace' = Append(entered,
                                        REnded("return", "llm.invoke", result.content))
              /\ rpc' = "returned"
           \/ /\ rec_outcome' = Raised("LLMError", "llm.invoke")
              /\ rtrace' = Append(entered, REnded("raise", "llm.invoke", "LLMError"))
              /\ rpc' = "raised"
    /\ UNCHANGED <<query, retrieved_docs, context, prompt_input, loader_vars, main_vars>>

get_recommendations == R_Retrieve \/ R_Format \/ R_Invoke

(***************************************************************************)
(* Specifications.                                                         *)
(***************************************************************************)
LoaderIdle ==
    /\ loader = NoLoader
    /\ lpc = "idle"
    /\ df = NoFrame
    /\ outcome = Running
    /\ fs_at_call = fs
    /\ first_call = NoCall

MainIdle(at) ==
    /\ mpc = at
    /\ log = <<>>
    /\ vector_builder = NoBuilder
    /\ e = NoException
    /\ trace = <<>>
    /\ main_outcome = Running

RecIdle(at) ==
    /\ rpc = at
    /\ retrieved_docs = <<>>
    /\ context = ""
    /\ prompt_input = PromptFormat("", "")
    /\ rec_outcome = Running
    /\ rtrace = <<>>

\* The pipeline and the loader: main() is run, or a loader is used directly.
Init ==
    /\ \E source \in SourceFiles, other \in StaleFiles :
          fs = [p \in Paths |-> IF p = csv_path THEN source ELSE other]
    /\ LoaderIdle
    /\ \/ caller = "main" /\ MainIdle("line20")
       \/ caller = "direct" /\ MainIdle("idle")
    /\ query = "" /\ RecIdle("idle")

Next ==
    \/ load_and_process
    \/ \E o \in Paths, p \in Paths : Construct(o, p)
    \/ \E p \in Paths : RoundTrip(p)
    \/ main

Spec == Init /\ [][Next]_vars

\* The recommender: one call of get_recommendations.
InitRecommender ==
    /\ fs = [p \in Paths |-> NoFile]
    /\ caller = "none"
    /\ LoaderIdle
    /\ MainIdle("idle")
    /\ query \in Queries
    /\ RecIdle("line28")

NextRecommender == get_recommendations

SpecRecommender == InitRecommender /\ [][NextRecommender]_vars

(***************************************************************************)
(* Properties of load_and_process.  They are stated on the files: the      *)
(* source as it was when the call began, the destination as it is now.     *)
(***************************************************************************)
Called    == loader # NoLoader
Succeeded == Called /\ lpc = "returned"
Failed    == Called /\ lpc = "raised"

Source      == fs_at_call[loader.original_csv]
Destination == fs[loader.processed_csv]

RequiredNames == {"Name", "Genres", "sypnopsis"}

HasColumns(file) == file.kind = "csv" /\ RequiredNames \subseteq Range(file.header)

\* The raw field of line i under the column named c.
FieldUnder(file, i, c) ==
    file.lines[i][IndexOf(file.header, c) + leading_cols(file)]

\* Line i has no value under some column: the field is not there, or it is empty
\* or one of the texts for "not available".
LineHasMissing(file, i) ==
    \E j \in 1..Len(file.header) :
        LET p == j + leading_cols(file)
        IN  p > Len(file.lines[i]) \/ file.lines[i][p] \in NaValues

CompleteLines(file) == {i \in 1..Len(file.lines) : ~LineHasMissing(file, i)}

\* The lines the reader takes (not skipped as malformed) that miss no value.
KeptLines(file) == {i \in CompleteLines(file) : ~IsBadLine(file, i)}

\* The k-th smallest member of the set of numbers S.
NthOf(S, k) == CHOOSE i \in S : Cardinality({j \in S : j <= i}) = k

NamedColumns(exception) == exception.detail[2]

\* C1: a source CSV short of a required column makes load_and_process raise
\* ValueError, whose message names every absent required column and no other
\* column, whatever the rows hold: the call goes on until it has raised, and
\* never gets past the check of the columns.
C1_MissingColumnsNamed ==
    (Called /\ Source.kind = "csv" /\ ~HasColumns(Source)) =>
        /\ lpc \in {"line9", "line12", "raised"}
        /\ lpc # "raised" => ENABLED (LP_Read \/ LP_Validate)
        /\ lpc = "raised" =>
              /\ outcome.kind = "raise"
              /\ outcome.type = "ValueError"
              /\ \A c \in RequiredNames \cup Range(Source.header) :
                    c \in NamedColumns(outcome)
                        <=> (c \in RequiredNames /\ c \notin Range(Source.header))
              /\ NamedColumns(outcome) \subseteq RequiredNames

C1_Witness ==
    /\ Failed
    /\ Source.kind = "csv"
    /\ Source.header = <<"MAL_ID", "Name", "Score", "Genres">>
    /\ Len(Source.lines) = 1
    /\ outcome.type = "ValueError"
    /\ NamedColumns(outcome) = {"sypnopsis"}

\* C2: after a successful load the k-th line written is
\* "Title: " + Name + "..Overview: " + sypnopsis + "Genres : " + Genres of the
\* k-th surviving line of the source.
C2_CombinedInfoFormat ==
    Succeeded =>
        LET kept == KeptLines(Source)
            out  == Destination.lines
        IN  \A k \in 1..Len(out) :
                /\ k <= Cardinality(kept)
                /\ out[k] = << "Title: " \o FieldUnder(Source, NthOf(kept, k), "Name")
                               \o "..Overview: "
                               \o FieldUnder(Source, NthOf(kept, k), "sypnopsis")
                               \o "Genres : "
                               \o FieldUnder(Source, NthOf(kept, k), "Genres") >>

C2_Witness ==
    /\ Succeeded
    /\ Len(Source.lines) = 2
    /\ Destination.lines =
          << <<"Title: Naruto..Overview: A ninja's journey.Genres : Action, Adventure">>,
             <<"Title: Bleach..Overview: Soul reapers.Genres : Action">> >>

\* C3 as stated: after a successful load every source line with no missing
\* value has exactly one output line and the others have none.
C3_EveryCompleteLineKept ==
    Succeeded =>
        /\ Len(Destination.lines) = Cardinality(CompleteLines(Source))
        /\ Len(Destination.lines) <= Len(Source.lines)
        /\ Len(Destination.lines) = Len(Source.lines)
              => CompleteLines(Source) = 1..Len(Source.lines)

\* C3, amended: after a successful load the output lines are as many as the
\* source lines the reader takes that miss no value; they are no more than the
\* source lines, and as many only when no source line misses a value.
C3_CompleteTakenLinesKept ==
    Succeeded =>
        /\ Len(Destination.lines) = Cardinality(KeptLines(Source))
        /\ Len(Destination.lines) <= Len(Source.lines)
        /\ Len(Destination.lines) = Len(Source.lines)
              => CompleteLines(Source) = 1..Len(Source.lines)

C3_Witness ==
    /\ Succeeded
    /\ Len(Source.lines) = 2
    /\ LineHasMissing(Source, 1)
    /\ ~LineHasMissing(Source, 2)
    /\ Len(Destination.lines) = 1

\* C4: a second loader run on the first loader's processed output raises the
\* missing-column error naming Name, Genres and sypnopsis.
C4_RoundTripFails ==
    first_call # NoCall =>
        /\ loader.original_csv = first_call.loader.processed_csv
        /\ lpc \in {"line9", "line12", "raised"}
        /\ lpc = "raised" =>
              /\ outcome.type = "ValueError"
              /\ NamedColumns(outcome) = {"Name", "Genres", "sypnopsis"}

C4_Witness ==
    /\ first_call # NoCall
    /\ Len(first_call.fs_after[first_call.loader.processed_csv].lines) = 2
    /\ Failed
    /\ outcome.type = "ValueError"

\* C8 as stated: a successful load returns the destination path, writes the
\* destination with the one column combined_info, and leaves every other file
\* and the source as they were.
C8_SourceUnchanged ==
    Succeeded =>
        /\ outcome = Returned(loader.processed_csv)
        /\ Destination.kind = "csv"
        /\ Destination.header = <<"combined_info">>
        /\ \A k \in 1..Len(Destination.lines) : Len(Destination.lines[k]) = 1
        /\ \A p \in Paths \ {loader.processed_csv} : fs[p] = fs_at_call[p]
        /\ fs[loader.original_csv] = Source

\* C8, amended: the source is as it was unless the destination path is the
\* source path; then it is the processed output.
C8_OnlyDestinationWritten ==
    Succeeded =>
        /\ outcome = Returned(loader.processed_csv)
        /\ Destination.kind = "csv"
        /\ Destination.header = <<"combined_info">>
        /\ \A k \in 1..Len(Destination.lines) : Len(Destination.lines[k]) = 1
        /\ \A p \in Paths \ {loader.processed_csv} : fs[p] = fs_at_call[p]
        /\ loader.original_csv # loader.processed_csv => fs[loader.original_csv] = Source

C8_Witness ==
    /\ Succeeded
    /\ loader.original_csv # loader.processed_csv
    /\ fs_at_call[loader.processed_csv] # NoFile
    /\ Len(Destination.lines) = 2
    /\ "MAL_ID" \in Range(Source.header)

\* C10: when load_and_process fails before line 25 (the source cannot be read,
\* a required column is missing, the concatenation fails), and as long as it
\* has not reached line 25, every file is as it was when the call began.
C10_FailureLeavesDestination ==
    Called =>
        /\ lpc \in {"line9", "line12", "line21", "line25"} => fs = fs_at_call
        /\ (lpc = "raised" /\ outcome.type # "OSError") => fs = fs_at_call

C10_Witness ==
    /\ Failed
    /\ outcome.type = "ValueError"
    /\ loader.original_csv # loader.processed_csv
    /\ Destination = fs_at_call[loader.processed_csv]
    /\ Destination.kind = "csv"

(***************************************************************************)
(* Properties of main().                                                   *)
(***************************************************************************)
Events(tr, ev, what) == {i \in 1..Len(tr) : tr[i].ev = ev /\ tr[i].what = what}

StepFailed == \E i \in 1..Len(trace) : trace[i].ev = "raise"

BuilderSteps == {"VectorStoreBuilder", "build_and_save_vectorstore"}

\* The exception the failed step raised: the loader's, or the vector store's.
OriginalException ==
    IF lpc = "raised" THEN outcome
    ELSE Raised("VectorStoreError", trace[Len(trace)].what)

\* C5: once a step of main() has raised, main() is in its handler or has ended
\* raising; it ends raising a CustomException that carries the step's exception,
\* the log's last entry being the failure's; it returns only when no step raised.
C5_FailureWrappedAndRaised ==
    caller = "main" =>
        /\ StepFailed => mpc \in {"line37", "raised"}
        /\ mpc = "line37" => StepFailed /\ e = OriginalException /\ ENABLED M_Except
        /\ mpc = "raised" =>
              /\ StepFailed
              /\ main_outcome.kind = "raise"
              /\ main_outcome.type = "CustomException"
              /\ main_outcome.detail.error_detail = OriginalException
              /\ log[Len(log)].msg = "failed to execute pipeline "
              /\ log[Len(log)].about = OriginalException
        /\ mpc = "returned" => ~StepFailed /\ main_outcome.kind = "return"
        /\ main_outcome.kind # "none" <=> mpc \in {"returned", "raised"}

C5_Witness ==
    /\ caller = "main"
    /\ mpc = "raised"
    /\ lpc = "raised"
    /\ outcome.type = "ValueError"
    /\ main_outcome.detail.error_detail = outcome

\* C6: main() calls the vector store builder only after load_and_process has
\* returned, with the path it returned; never after the loader raised; and it
\* calls no step twice.
C6_BuilderAfterLoader ==
    caller = "main" =>
        /\ \A i \in 1..Len(trace) :
              (trace[i].ev = "call" /\ trace[i].what \in BuilderSteps) =>
                  /\ \E j \in 1..(i - 1) :
                        trace[j].ev = "return" /\ trace[j].what = "load_and_process"
                  /\ lpc = "returned"
                  /\ trace[i].arg = outcome.value
        /\ \A i \in Events(trace, "call", "build_and_save_vectorstore") :
              \E j \in 1..(i - 1) :
                  trace[j].ev = "return" /\ trace[j].what = "VectorStoreBuilder"
        /\ lpc = "raised" =>
              \A i \in 1..Len(trace) : trace[i].what \notin BuilderSteps
        /\ \A what \in BuilderSteps \cup {"load_and_process"} :
              Cardinality(Events(trace, "call", what)) <= 1

C6_Witness ==
    /\ caller = "main"
    /\ mpc = "returned"
    /\ Cardinality(Events(trace, "call", "build_and_save_vectorstore")) = 1
    /\ vector_builder.csv_path = processed_csv_path

(***************************************************************************)
(* Properties of get_recommendations.                                      *)
(***************************************************************************)
\* The first k texts, a newline between neighbours.
RECURSIVE JoinedUpTo(_, _)
JoinedUpTo(texts, k) ==
    IF k = 0 THEN ""
    ELSE IF k = 1 THEN texts[1]
    ELSE JoinedUpTo(texts, k - 1) \o "\n" \o texts[k]

SumLen(texts) ==
    LET RECURSIVE Sum(_)
        Sum(k) == IF k = 0 THEN 0 ELSE Len(texts[k]) + Sum(k - 1)
    IN  Sum(Len(texts))

\* C7: the context passed to the prompt template is the documents' texts in the
\* retriever's order with one newline between neighbours and none before or
\* after; the question passed is the query.
C7_ContextJoined ==
    \A i \in Events(rtrace, "call", "prompt.format") :
        LET texts == [k \in 1..Len(retrieved_docs) |-> retrieved_docs[k].page_content]
            n == Len(texts)
        IN  /\ rtrace[i].arg.context = JoinedUpTo(texts, n)
            /\ Len(rtrace[i].arg.context) = SumLen(texts) + (IF n = 0 THEN 0 ELSE n - 1)
            /\ n = 0 => rtrace[i].arg.context = ""
            /\ texts = <<"doc A", "doc B">> => rtrace[i].arg.context = "doc A\ndoc B"
            /\ rtrace[i].arg.question = query
            /\ prompt_input = rtrace[i].arg

C7_Witness ==
    /\ Events(rtrace, "call", "prompt.format") # {}
    /\ query = "action anime"
    /\ retrieved_docs = <<Document("doc A"), Document("doc B")>>
    /\ context = "doc A\ndoc B"

\* C9: a call of get_recommendations that has ended called the retriever once,
\* with the query; it calls the LLM at most once, after the retriever returned,
\* with the formatted prompt; it returns the text of the LLM's response; when
\* the retriever raises the LLM is not called; what either raises is what the
\* call raises.
C9_RetrieveThenInvoke ==
    LET retrievals  == Events(rtrace, "call", "retriever.invoke")
        invocations == Events(rtrace, "call", "llm.invoke")
        last        == rtrace[Len(rtrace)]
    IN  /\ Cardinality(retrievals) <= 1
        /\ Cardinality(invocations) <= 1
        /\ \A i \in retrievals : rtrace[i].arg.question = query
        /\ \A i \in invocations :
              /\ \E j \in 1..(i - 1) :
                    rtrace[j].ev = "return" /\ rtrace[j].what = "retriever.invoke"
              /\ rtrace[i].arg = prompt_input
              /\ Events(rtrace, "raise", "retriever.invoke") = {}
        /\ rpc = "returned" =>
              /\ Cardinality(retrievals) = 1 /\ Cardinality(invocations) = 1
              /\ last.ev = "return" /\ last.what = "llm.invoke"
              /\ rec_outcome = Returned(last.result)
        /\ rpc = "raised" =>
              /\ Cardinality(retrievals) = 1
              /\ last.ev = "raise"
              /\ rec_outcome.kind = "raise" /\ rec_outcome.type = last.result
              /\ rec_outcome.detail = last.what
        /\ (\E i \in 1..Len(rtrace) : rtrace[i].ev = "raise") => rpc = "raised"

C9_Witness ==
    /\ rpc = "returned"
    /\ rec_outcome = Returned("1. Naruto 2. Bleach 3. One Piece")
    /\ Len(retrieved_docs) = 2

====
